---------------------------- MODULE Spec2Model ----------------------------
(***************************************************************************)
(* The three transaction stores of the repository:                         *)
(*   "OCC"   src/occ_problem.py    one current value per key               *)
(*   "MVOCC" src/mvocc_problem.py  version chains, read set a list         *)
(*   "MVCC"  src/mvcc_problem.py   version chains, read set a dict         *)
(* Threads call new_transaction / read / write / commit on one shared      *)
(* store.  The code takes no lock, so a call is a sequence of steps that   *)
(* other threads' steps interleave with.                                   *)
(***************************************************************************)
EXTENDS Integers, Sequences, FiniteSets, TLC

\* ---------------------------------------------------------------- bounds
MaxReads == 2
MaxWrites == 2
MaxRows == 2
MaxTxns == 4
MaxLate == 1

\* The main thread, which loads the initial data and then starts the others.
Main == 0
Threads == {1, 2}
Callers == Threads \cup {3}
AllThreads == {Main} \cup Callers
Keys == {"user_1", "user_2"}
StoreKinds == {"OCC", "MVOCC", "MVCC"}

\* Python's None where a timestamp is expected (a version's open end_ts).
None == -1

\* A stored value: the dict {'Score': s, 'LastSubmission': t} as <<s, t>>.
\* ValueA has the content of the sample's first row, ValueB and ValueC have not.
ValueA == <<100, 0>>
ValueB == <<120, 0>>
ValueC == <<150, 0>>

\* The value a read returns when it finds nothing (Python's None).
NoValue == <<>>

\* load_sample_data: the rows <<key, value>> of the sample leaderboard.
SampleData ==
    << <<"user_1", <<100, 0>>>>, <<"user_2", <<200, 0>>>>,
       <<"user_3", <<150, 0>>>>, <<"user_4", <<180, 0>>>>,
       <<"user_5", <<120, 0>>>> >>

\* The data frames load_initial_data is tried on: the first rows of the sample.
Frames == {SubSeq(SampleData, 1, n) : n \in 0..MaxRows}

VARIABLES
    kind,          \* which of the three classes the store is
    records,       \* self.records: key -> value (OCC) or key -> chain (MV)
    transactions,  \* self.transactions: tid -> context
    next_tid,      \* self.next_tid
    commit_log,    \* self.commit_log
    pc,            \* per thread: the statement it is about to execute
    tid,           \* per thread: the local tid of the call in progress
    tmp,           \* per thread: the value loaded by `self.next_tid += 1`
    ts,            \* per thread: the local current_ts / commit_ts
    items,         \* per thread: the sequence a for-loop is iterating
    idx,           \* per thread: the position of that loop
    ret,           \* per thread: the last call and what it returned
    held,          \* per thread: the id its last new_transaction returned
    at,            \* per thread: where its caller is in its own code, and
                   \* history: the calls made, the log length at its read,
                   \* what each read found
    df,            \* the rows load_initial_data is given
    owner          \* history: per key, the transaction that stored its value

storeVars == <<records, transactions, next_tid, commit_log>>
vars == <<kind, records, transactions, next_tid, commit_log,
          pc, tid, tmp, ts, items, idx, ret, held, at, df, owner>>

IsMV == kind \in {"MVOCC", "MVCC"}

\* ------------------------------------------------------- dicts and lists
\* A Python dict kept in insertion order, as a sequence of <<key, x>>.
HasKey(d, k) == \E j \in 1..Len(d) : d[j][1] = k

DictGet(d, k) == d[CHOOSE j \in 1..Len(d) : d[j][1] = k][2]

\* d[k] = x: a present key keeps its position, a new key goes last.
DictSet(d, k, x) ==
    IF HasKey(d, k)
    THEN [j \in 1..Len(d) |-> IF d[j][1] = k THEN <<k, x>> ELSE d[j]]
    ELSE Append(d, <<k, x>>)

\* self.records[key] of a defaultdict(list): a missing key reads as [].
Chain(recs, k) == IF k \in DOMAIN recs THEN recs[k] ELSE <<>>

\* The defaultdict after self.records[key] was evaluated: the key is in it.
Touch(recs, k) ==
    IF k \in DOMAIN recs THEN recs
    ELSE [x \in DOMAIN recs \cup {k} |-> IF x = k THEN <<>> ELSE recs[x]]

\* recs[k] = x, for a key that may be new.
Put(recs, k, x) ==
    [y \in DOMAIN recs \cup {k} |-> IF y = k THEN x ELSE recs[y]]

\* ------------------------------------------------------------------ init
EmptyContext(bts) == [read_set |-> <<>>, write_set |-> <<>>, begin_ts |-> bts]

Init ==
    /\ kind \in StoreKinds
    /\ records = <<>>
    /\ transactions = <<>>
    /\ next_tid = 1
    /\ commit_log = <<>>
    /\ pc = [t \in AllThreads |-> "idle"]
    /\ tid = [t \in AllThreads |-> 0]
    /\ tmp = [t \in AllThreads |-> 0]
    /\ ts = [t \in AllThreads |-> 0]
    /\ items = [t \in AllThreads |-> <<>>]
    /\ idx = [t \in AllThreads |-> 0]
    /\ ret = [t \in AllThreads |-> <<"none", NoValue>>]
    /\ held = [t \in AllThreads |-> 0]
    /\ at = [t \in AllThreads |->
                IF t = Main
                THEN [line |-> "load", n |-> 1, done |-> <<>>, late |-> 0,
                      seen |-> 0, obs |-> <<>>]
                ELSE [line |-> "begin", n |-> 0, done |-> <<>>, late |-> 0,
                      seen |-> 0, obs |-> <<>>]]
    /\ df \in Frames
    /\ owner = <<>>

\* A call returns: the frame is dropped and the thread is between calls.
Return(th, name, value) ==
    /\ pc' = [pc EXCEPT ![th] = "idle"]
    /\ ret' = [ret EXCEPT ![th] = <<name, value>>]
    /\ tid' = [tid EXCEPT ![th] = 0]
    /\ tmp' = [tmp EXCEPT ![th] = 0]
    /\ ts' = [ts EXCEPT ![th] = 0]
    /\ items' = [items EXCEPT ![th] = <<>>]
    /\ idx' = [idx EXCEPT ![th] = 0]

\* ------------------------------------------------------- new_transaction
\* tid = self.next_tid
new_transaction_tid(th) ==
    /\ pc[th] = "idle"
    /\ tid' = [tid EXCEPT ![th] = next_tid]
    /\ pc' = [pc EXCEPT ![th] = "new_load"]
    /\ UNCHANGED <<kind, df, owner, storeVars, tmp, ts, items, idx, ret, held>>

\* self.next_tid += 1, the load
new_transaction_load(th) ==
    /\ pc[th] = "new_load"
    /\ tmp' = [tmp EXCEPT ![th] = next_tid]
    /\ pc' = [pc EXCEPT ![th] = "new_store"]
    /\ UNCHANGED <<kind, df, owner, storeVars, tid, ts, items, idx, ret, held>>

\* self.next_tid += 1, the store
new_transaction_store(th) ==
    /\ pc[th] = "new_store"
    /\ next_tid' = tmp[th] + 1
    /\ pc' = [pc EXCEPT ![th] = "new_context"]
    /\ UNCHANGED <<kind, df, owner, records, transactions, commit_log,
                   tid, tmp, ts, items, idx, ret, held>>

\* self.transactions[tid] = {...}; return tid
new_transaction_context(th) ==
    /\ pc[th] = "new_context"
    /\ transactions' = Put(transactions, tid[th], EmptyContext(Len(commit_log)))
    /\ held' = [held EXCEPT ![th] = tid[th]]
    /\ Return(th, "new_transaction", tid[th])
    /\ UNCHANGED <<kind, df, owner, records, next_tid, commit_log>>

\* ------------------------------------------------------------------ read
\* The versions of a chain a transaction begun at bts may see.
Visible(v, bts) ==
    /\ v.begin_ts <= bts
    /\ (v.end_ts = None \/ v.end_ts > bts)

\* for version in reversed(self.records[key]): the first visible one, as
\* its position in the chain (0: none).  The position stands for the
\* version object: chains only grow, so it names the same object for ever.
LatestVisible(chain, bts) ==
    IF \E j \in 1..Len(chain) : Visible(chain[j], bts)
    THEN CHOOSE j \in 1..Len(chain) :
            /\ Visible(chain[j], bts)
            /\ \A m \in (j+1)..Len(chain) : ~Visible(chain[m], bts)
    ELSE 0

\* What read(tid, key) records in the read set, if anything: the value
\* itself (OCC) or the version object (MV).
ReadRef(knd, recs, bts, k) ==
    IF knd = "OCC"
    THEN (IF k \in DOMAIN recs THEN <<recs[k]>> ELSE <<>>)
    ELSE (IF LatestVisible(Chain(recs, k), bts) > 0
          THEN <<LatestVisible(Chain(recs, k), bts)>> ELSE <<>>)

\* What read(tid, key) returns.
ReadValue(knd, recs, bts, k) ==
    IF ReadRef(knd, recs, bts, k) = <<>> THEN NoValue
    ELSE IF knd = "OCC" THEN recs[k]
    ELSE recs[k][ReadRef(knd, recs, bts, k)[1]].value

\* The read set after the read recorded ref: a dict entry (OCC, MVCC) or
\* one more list element (MVOCC).
RecordRead(knd, rs, k, ref) ==
    IF knd = "MVOCC" THEN Append(rs, <<k, ref>>) ELSE DictSet(rs, k, ref)

read(th, k) ==
    /\ pc[th] = "idle"
    /\ held[th] # 0
    /\ LET t == held[th]
           ctx == transactions[t]
           ref == ReadRef(kind, records, ctx.begin_ts, k)
       IN /\ (kind = "MVOCC" /\ ref # <<>>) => Len(ctx.read_set) < MaxReads
          /\ records' = IF IsMV THEN Touch(records, k) ELSE records
          /\ transactions' =
                IF ref = <<>> THEN transactions
                ELSE [transactions EXCEPT ![t].read_set =
                          RecordRead(kind, ctx.read_set, k, ref[1])]
          /\ Return(th, "read", ReadValue(kind, records, ctx.begin_ts, k))
    /\ UNCHANGED <<kind, df, owner, next_tid, commit_log, held>>

\* ----------------------------------------------------------------- write
\* The write set after write(tid, key, value): a dict entry (OCC) or one
\* more list element (MV).
RecordWrite(knd, ws, k, v) ==
    IF knd = "OCC" THEN DictSet(ws, k, v) ELSE Append(ws, <<k, v>>)

write(th, k, v) ==
    /\ pc[th] = "idle"
    /\ held[th] # 0
    /\ LET t == held[th]
           ctx == transactions[t]
       IN /\ Len(RecordWrite(kind, ctx.write_set, k, v)) <= MaxWrites
          /\ transactions' = [transactions EXCEPT ![t].write_set =
                                  RecordWrite(kind, ctx.write_set, k, v)]
    /\ Return(th, "write", NoValue)
    /\ UNCHANGED <<kind, df, owner, records, next_tid, commit_log, held>>

\* ------------------------------------------------------------- versions
\* CloseHead as it would be if the superseded version were closed one tick
\* after the commit timestamp.
CloseHead_one_later(chain, cts) ==
    IF chain = <<>> THEN chain
    ELSE [chain EXCEPT ![Len(chain)].end_ts = cts + 1]

\* The chain with its last version's end_ts set.
CloseHead(chain, cts) ==
    IF chain = <<>> THEN chain
    ELSE [chain EXCEPT ![Len(chain)].end_ts = cts]

\* NewVersion as it would be if commit took its timestamp after the log
\* append.
NewVersion_stamped_after_append(v, cts, t) ==
    [value |-> v, begin_ts |-> cts + 1, end_ts |-> None, tid |-> t]

\* The version commit appends for a buffered value.
NewVersion(v, cts, t) ==
    [value |-> v, begin_ts |-> cts, end_ts |-> None, tid |-> t]

\* -------------------------------------------------------------- validate
\* The test of validate's loop as it would be if it only looked whether the
\* key is still stored.
Conflict_key_stored(knd, recs, k, ref, now) == k \notin DOMAIN recs

\* One iteration of validate's loop: TRUE when the entry <<key, ref>> of
\* the read set makes validation fail.  now is validate's current_ts.
Conflict(knd, recs, k, ref, now) ==
    CASE knd = "OCC" ->
            k \notin DOMAIN recs \/ recs[k] # ref
      [] knd = "MVOCC" ->
            /\ Chain(recs, k) # <<>>
            /\ \/ recs[k][Len(recs[k])].begin_ts > recs[k][ref].begin_ts
               \/ /\ recs[k][ref].end_ts # None
                  /\ recs[k][ref].end_ts <= now
      [] OTHER ->
            /\ Chain(recs, k) # <<>>
            /\ recs[k][Len(recs[k])] # recs[k][ref]

\* ---------------------------------------------------------------- commit
\* len(self.commit_log) where the multi-version stores take a timestamp;
\* the flat store has none.
Clock == IF kind = "OCC" THEN 0 ELSE Len(commit_log)

\* Validation is over: the write loop starts with commit_ts = cts, or with
\* nothing to write the commit-log append is next.
StartApply(th, t, cts) ==
    /\ ts' = [ts EXCEPT ![th] = cts]
    /\ items' = [items EXCEPT ![th] = transactions[t].write_set]
    /\ idx' = [idx EXCEPT ![th] = 1]
    /\ pc' = [pc EXCEPT ![th] =
                 IF transactions[t].write_set = <<>> THEN "log"
                 ELSE IF kind = "OCC" THEN "apply" ELSE "close"]

\* commit(tid) is entered: MVCC takes commit_ts, MVOCC validate's
\* current_ts (its commit_ts follows validation), and the loop over the read
\* set starts.
commit_call(th) ==
    /\ pc[th] = "idle"
    /\ held[th] # 0
    /\ tid' = [tid EXCEPT ![th] = held[th]]
    /\ IF transactions[held[th]].read_set = <<>>
       THEN StartApply(th, held[th], Clock)
       ELSE /\ ts' = [ts EXCEPT ![th] = Clock]
            /\ items' = [items EXCEPT ![th] = transactions[held[th]].read_set]
            /\ idx' = [idx EXCEPT ![th] = 1]
            /\ pc' = [pc EXCEPT ![th] = "validate"]
    /\ UNCHANGED <<kind, df, owner, storeVars, tmp, ret, held>>

\* validate as it would be if commit stored the first buffered write before
\* the outcome of validation was known.
validate_after_write(th) ==
    /\ pc[th] = "validate"
    /\ LET e == items[th][idx[th]]
           ws == transactions[tid[th]].write_set
       IN IF Conflict(kind, records, e[1], e[2], ts[th])
          THEN /\ Return(th, "commit", FALSE)
               /\ records' =
                     IF ws = <<>> THEN records
                     ELSE IF kind = "OCC" THEN Put(records, ws[1][1], ws[1][2])
                     ELSE Put(records, ws[1][1],
                              Append(CloseHead(Chain(records, ws[1][1]), ts[th]),
                                     NewVersion(ws[1][2], ts[th], tid[th])))
               /\ UNCHANGED <<kind, df, owner, transactions, next_tid,
                              commit_log, held>>
          ELSE /\ IF idx[th] < Len(items[th])
                  THEN /\ idx' = [idx EXCEPT ![th] = idx[th] + 1]
                       /\ UNCHANGED <<pc, ts, items>>
                  ELSE StartApply(th, tid[th],
                                  IF kind = "MVOCC" THEN Clock ELSE ts[th])
               /\ UNCHANGED <<kind, df, owner, storeVars, tid, tmp, ret, held>>

\* validate as it would be if an aborted transaction were entered in the
\* commit log too.
validate_logging_abort(th) ==
    /\ pc[th] = "validate"
    /\ LET e == items[th][idx[th]]
       IN IF Conflict(kind, records, e[1], e[2], ts[th])
          THEN /\ Return(th, "commit", FALSE)
               /\ commit_log' = Append(commit_log, tid[th])
               /\ UNCHANGED <<kind, df, owner, records, transactions,
                              next_tid, held>>
          ELSE /\ IF idx[th] < Len(items[th])
                  THEN /\ idx' = [idx EXCEPT ![th] = idx[th] + 1]
                       /\ UNCHANGED <<pc, ts, items>>
                  ELSE StartApply(th, tid[th],
                                  IF kind = "MVOCC" THEN Clock ELSE ts[th])
               /\ UNCHANGED <<kind, df, owner, storeVars, tid, tmp, ret, held>>

\* One iteration of validate's loop; a conflict returns False from commit.
validate(th) ==
    /\ pc[th] = "validate"
    /\ LET e == items[th][idx[th]]
       IN IF Conflict(kind, records, e[1], e[2], ts[th])
          THEN /\ Return(th, "commit", FALSE)
               /\ UNCHANGED <<kind, df, owner, storeVars, held>>
          ELSE /\ IF idx[th] < Len(items[th])
                  THEN /\ idx' = [idx EXCEPT ![th] = idx[th] + 1]
                       /\ UNCHANGED <<pc, ts, items>>
                  ELSE StartApply(th, tid[th],
                                  IF kind = "MVOCC" THEN Clock ELSE ts[th])
               /\ UNCHANGED <<kind, df, owner, storeVars, tid, tmp, ret, held>>

\* The loop over the write set moves on; after the last entry the log.
NextWrite(th) ==
    /\ idx' = [idx EXCEPT ![th] = idx[th] + 1]
    /\ pc' = [pc EXCEPT ![th] =
                 IF idx[th] < Len(items[th])
                 THEN (IF kind = "OCC" THEN "apply" ELSE "close")
                 ELSE "log"]

\* OCC: self.records[key] = value
commit_apply(th) ==
    /\ pc[th] = "apply"
    /\ LET e == items[th][idx[th]]
       IN /\ records' = Put(records, e[1], e[2])
          /\ owner' = Put(owner, e[1], tid[th])
    /\ NextWrite(th)
    /\ UNCHANGED <<kind, df, transactions, next_tid, commit_log,
                   tid, tmp, ts, items, ret, held>>

\* MV: if self.records[key]: self.records[key][-1]['end_ts'] = commit_ts
commit_close(th) ==
    /\ pc[th] = "close"
    /\ LET e == items[th][idx[th]]
       IN records' = Put(records, e[1], CloseHead(Chain(records, e[1]), ts[th]))
    /\ pc' = [pc EXCEPT ![th] = "append"]
    /\ UNCHANGED <<kind, df, owner, transactions, next_tid, commit_log,
                   tid, tmp, ts, items, idx, ret, held>>

\* MV: self.records[key].append(new_version)
commit_append(th) ==
    /\ pc[th] = "append"
    /\ LET e == items[th][idx[th]]
       IN records' = Put(records, e[1],
                         Append(Chain(records, e[1]),
                                NewVersion(e[2], ts[th], tid[th])))
    /\ NextWrite(th)
    /\ UNCHANGED <<kind, df, owner, transactions, next_tid, commit_log,
                   tid, tmp, ts, items, ret, held>>

\* self.commit_log.append(tid); return True
commit_log_append(th) ==
    /\ pc[th] = "log"
    /\ commit_log' = Append(commit_log, tid[th])
    /\ Return(th, "commit", TRUE)
    /\ UNCHANGED <<kind, df, owner, records, transactions, next_tid, held>>

\* ---------------------------------------------------------------- callers
\* load_initial_data, run by the main thread before any other thread
\* starts: for each row new_transaction, write, commit.
load_initial_data(th) ==
    \/ /\ at[th].line = "load"
       /\ at[th].n <= Len(df)
       /\ new_transaction_tid(th)
       /\ at' = [at EXCEPT ![th].line = "load_write"]
    \/ /\ at[th].line = "load_write"
       /\ write(th, df[at[th].n][1], df[at[th].n][2])
       /\ at' = [at EXCEPT ![th].line = "load_commit"]
    \/ /\ at[th].line = "load_commit"
       /\ commit_call(th)
       /\ at' = [at EXCEPT ![th].line = "load", ![th].n = @ + 1]

\* main() starts the other threads once load_initial_data has returned.
Loaded == at[Main].line = "load" /\ at[Main].n > Len(df) /\ pc[Main] = "idle"

\* The transactions a caller is tried with: the reads and writes it makes
\* between new_transaction and commit.
Plans ==
    { << <<"write", "user_1", ValueB>> >>,
      << <<"read", "user_1">>, <<"write", "user_1", ValueB>> >>,
      << <<"read", "user_1">>, <<"write", "user_1", ValueA>> >>,
      << <<"read", "user_1">>, <<"read", "user_1">> >>,
      << <<"write", "user_1", ValueA>>, <<"write", "user_1", ValueB>> >>,
      << <<"read", "user_1">>, <<"read", "user_2">>,
         <<"write", "user_1", ValueB>>, <<"write", "user_2", ValueB>> >> }

IsPrefix(p, q) == Len(p) <= Len(q) /\ SubSeq(q, 1, Len(p)) = p

\* A call the caller may make next: one that keeps it on some plan of P.
OnPlan(P, done, call) == \E p \in P : IsPrefix(Append(done, call), p)

\* What a read of k by th's transaction finds, as read would record it:
\* <<>> when it finds nothing.
Observed(th, k) ==
    ReadRef(kind, records, transactions[held[th]].begin_ts, k)

\* A caller of the store's interface: it begins a transaction, reads and
\* writes in it as one of the plans of P says, and commits it.  Callers are alike,
\* so they are numbered in the order of their first call.
client(th, P) ==
    \/ /\ Loaded
       /\ at[th].line = "begin"
       /\ \A o \in Callers : o < th => at[o].line # "begin"
       /\ new_transaction_tid(th)
       /\ at' = [at EXCEPT ![th].line = "active", ![th].n = 1]
    \/ /\ at[th].line = "active"
       /\ \E k \in Keys :
             /\ OnPlan(P, at[th].done, <<"read", k>>)
             /\ read(th, k)
             /\ at' = [at EXCEPT ![th].done = Append(@, <<"read", k>>),
                                 ![th].seen = Len(commit_log),
                                 ![th].obs = Append(@, <<k, Observed(th, k)>>)]
    \/ /\ at[th].line = "active"
       /\ \E k \in Keys, v \in {ValueA, ValueB, ValueC} :
             /\ OnPlan(P, at[th].done, <<"write", k, v>>)
             /\ write(th, k, v)
             /\ at' = [at EXCEPT ![th].done = Append(@, <<"write", k, v>>)]
    \/ /\ at[th].line = "active"
       /\ at[th].done \in P
       /\ commit_call(th)
       /\ at' = [at EXCEPT ![th].line = "finished"]

\* A statement inside a call: the caller's own position does not move.
Internal(th) ==
    \/ new_transaction_load(th) /\ UNCHANGED at
    \/ new_transaction_store(th) /\ UNCHANGED at
    \/ new_transaction_context(th) /\ UNCHANGED at
    \/ validate(th) /\ UNCHANGED at
    \/ commit_apply(th) /\ UNCHANGED at
    \/ commit_close(th) /\ UNCHANGED at
    \/ commit_append(th) /\ UNCHANGED at
    \/ commit_log_append(th) /\ UNCHANGED at

\* ------------------------------------------------------------------ next
\* Threads run with no lock: any thread may take the next step.
Next ==
    \/ \E th \in AllThreads : Internal(th)
    \/ load_initial_data(Main)
    \/ \E th \in Threads : client(th, Plans)

Spec == Init /\ [][Next]_vars

\* ---------------------------------------------------------- one at a time
\* No call of another thread is in progress.
Quiet(th) == \A o \in AllThreads \ {th} : pc[o] = "idle"

\* The transactions the callers have begun, and the calls they have made on
\* finished ones.
Begun == at[1].n + at[2].n + at[3].n
Late == at[1].late + at[2].late + at[3].late

\* A caller whose commit has returned begins its next transaction.
client_again(th) ==
    /\ at[th].line = "finished"
    /\ Begun < MaxTxns
    /\ new_transaction_tid(th)
    /\ at' = [at EXCEPT ![th] = [line |-> "active", n |-> at[th].n + 1,
                                 done |-> <<>>, late |-> at[th].late,
                                 seen |-> 0, obs |-> <<>>]]

\* A caller uses the id of a transaction whose commit has returned: the
\* classes accept it, nothing marks a context as finished.
misuse(th) ==
    \/ /\ at[th].line = "finished"
       /\ Late < MaxLate
       /\ \E k \in Keys : read(th, k)
       /\ at' = [at EXCEPT ![th].late = @ + 1]
    \/ /\ at[th].line = "finished"
       /\ Late < MaxLate
       /\ \E k \in Keys : write(th, k, ValueA)
       /\ at' = [at EXCEPT ![th].late = @ + 1]
    \/ /\ at[th].line = "finished"
       /\ Late < MaxLate
       /\ commit_call(th)
       /\ at' = [at EXCEPT ![th].late = @ + 1]

\* The store called by one caller at a time: a call runs to its return
\* before the next call starts.
NextSerial ==
    \/ \E th \in AllThreads : Quiet(th) /\ Internal(th)
    \/ Quiet(Main) /\ load_initial_data(Main)
    \/ \E th \in Threads : Quiet(th) /\ client(th, Plans)
    \/ \E th \in Threads : Quiet(th) /\ misuse(th)

SpecSerial == Init /\ [][NextSerial]_vars

\* Two callers that each read a key and write it, and a third that commits
\* writes of that key between their calls; one call at a time.
ReadWritePlans ==
    { << <<"read", "user_1">>, <<"write", "user_1", ValueB>> >>,
      << <<"read", "user_1">>, <<"write", "user_1", ValueA>> >>,
      << <<"read", "user_1">>, <<"write", "user_1", ValueC>> >> }

WritePlans == { << <<"write", "user_1", ValueB>> >> }

NextFirst ==
    \/ \E th \in AllThreads : Quiet(th) /\ Internal(th)
    \/ Quiet(Main) /\ load_initial_data(Main)
    \/ \E th \in Threads : Quiet(th) /\ client(th, ReadWritePlans)
    \/ Quiet(3) /\ client(3, WritePlans)
    \/ Quiet(3) /\ client_again(3)

SpecFirst == Init /\ [][NextFirst]_vars

\* ---------------------------------------------------------------- workers
\* max_retries in submit_problem_transaction
max_retries == 3

\* What datetime.now() may give while the threads run: the text of a second
\* later than the sample rows' LastSubmission.
Times == {1, 2}

\* The submissions each thread makes, as <<key, score_increase>>: the pairs
\* of run_concurrent_submissions that meet on user_1 or go to different
\* users.
Workloads ==
    { << << <<"user_1", 50>> >>, << <<"user_1", -20>> >> >>,
      << << <<"user_1", 50>> >>, << <<"user_2", 30>> >> >> }

\* One thread submitting while another submits three times to the same user.
LongWorkloads ==
    { << << <<"user_1", 50>> >>,
         << <<"user_1", -20>>, <<"user_1", -20>>, <<"user_1", -20>> >> >> }

InitWith(W) ==
    /\ kind \in StoreKinds
    /\ records = <<>>
    /\ transactions = <<>>
    /\ next_tid = 1
    /\ commit_log = <<>>
    /\ pc = [t \in AllThreads |-> "idle"]
    /\ tid = [t \in AllThreads |-> 0]
    /\ tmp = [t \in AllThreads |-> 0]
    /\ ts = [t \in AllThreads |-> 0]
    /\ items = [t \in AllThreads |-> <<>>]
    /\ idx = [t \in AllThreads |-> 0]
    /\ ret = [t \in AllThreads |-> <<"none", NoValue>>]
    /\ held = [t \in AllThreads |-> 0]
    /\ \E w \in W :
          at = [t \in AllThreads |->
                  IF t = Main
                  THEN [line |-> "load", n |-> 1, done |-> <<>>, late |-> 0,
                        seen |-> 0, obs |-> <<>>]
                  ELSE [line |-> "while", retry_count |-> 0,
                        todo |-> IF t \in DOMAIN w THEN w[t] ELSE <<>>,
                        call |-> 1, results |-> <<>>,
                        new_data |-> NoValue, ids |-> <<>>, seen |-> 0]]
    /\ df \in Frames
    /\ owner = <<>>

InitW == InitWith(Workloads)

\* The arguments of the thread's current call.
Key(th) == at[th].todo[at[th].call][1]
score_increase(th) == at[th].todo[at[th].call][2]

\* submit_problem_transaction returns r: the thread goes on to its next
\* submission, if it has one.
Finish(th, r) ==
    at' = [at EXCEPT ![th].line = "while",
                     ![th].retry_count = 0,
                     ![th].call = @ + 1,
                     ![th].results = Append(@, r),
                     ![th].seen = 0]

\* One statement of submit_problem_transaction(store, user_id,
\* score_increase), on the thread's current submission.
submit_problem_transaction(th) ==
    \/ /\ at[th].line = "while"
       /\ at[th].call <= Len(at[th].todo)
       /\ at[th].retry_count < max_retries
       /\ Loaded
       /\ new_transaction_tid(th)
       /\ at' = [at EXCEPT ![th].line = "read",
                           ![th].ids = Append(@, next_tid)]
    \/ /\ at[th].line = "read"
       /\ read(th, Key(th))
       /\ at' = [at EXCEPT ![th].line = "write",
                           ![th].seen = Len(commit_log)]
    \/ /\ at[th].line = "write"
       /\ pc[th] = "idle"
       /\ ret[th][2] = NoValue
       /\ Finish(th, "None")
       /\ UNCHANGED <<kind, df, owner, storeVars,
                      pc, tid, tmp, ts, items, idx, ret, held>>
    \/ /\ at[th].line = "write"
       /\ ret[th][2] # NoValue
       /\ \E now \in Times :
             LET new_data == <<ret[th][2][1] + score_increase(th), now>>
             IN /\ write(th, Key(th), new_data)
                /\ at' = [at EXCEPT ![th].line = "commit",
                                    ![th].new_data = new_data]
    \/ /\ at[th].line = "commit"
       /\ commit_call(th)
       /\ at' = [at EXCEPT ![th].line = "if"]
    \/ /\ at[th].line = "if"
       /\ pc[th] = "idle"
       /\ ret[th] = <<"commit", TRUE>>
       /\ Finish(th, "True")
       /\ UNCHANGED <<kind, df, owner, storeVars,
                      pc, tid, tmp, ts, items, idx, ret, held>>
    \/ /\ at[th].line = "if"
       /\ pc[th] = "idle"
       /\ ret[th] = <<"commit", FALSE>>
       /\ IF at[th].retry_count + 1 < max_retries
          THEN at' = [at EXCEPT ![th].line = "while",
                                ![th].retry_count = @ + 1,
                                ![th].seen = 0]
          ELSE Finish(th, "False")
       /\ UNCHANGED <<kind, df, owner, storeVars,
                      pc, tid, tmp, ts, items, idx, ret, held>>

\* run_concurrent_submissions: the threads run submit_problem_transaction
\* side by side, with no lock anywhere.
NextW ==
    \/ \E th \in AllThreads : Internal(th)
    \/ load_initial_data(Main)
    \/ \E th \in Threads : submit_problem_transaction(th)

SpecW == InitW /\ [][NextW]_vars

\* The same threads with one call of the store at a time, the second
\* thread submitting up to three times.
InitWSerial == InitWith(Workloads \cup LongWorkloads)

NextWSerial ==
    \/ \E th \in AllThreads : Quiet(th) /\ Internal(th)
    \/ Quiet(Main) /\ load_initial_data(Main)
    \/ \E th \in Threads : Quiet(th) /\ submit_problem_transaction(th)

SpecWSerial == InitWSerial /\ [][NextWSerial]_vars

\* Three threads that each make one submission: all to user_1, or two to
\* user_1 and one to user_2 as in run_concurrent_submissions.
ContentionWorkloads ==
    { << << <<"user_1", 50>> >>, << <<"user_1", 30>> >>,
         << <<"user_1", -20>> >> >>,
      << << <<"user_1", 50>> >>, << <<"user_2", 30>> >>,
         << <<"user_1", -20>> >> >> }

InitContention == InitWith(ContentionWorkloads)

\* The threads run within one second: datetime.now() formats to the same
\* text in all of them.
SameSecond(th) == at'[th].new_data = NoValue \/ at'[th].new_data[2] = 1

NextContention ==
    \/ \E th \in AllThreads : Quiet(th) /\ Internal(th)
    \/ Quiet(Main) /\ load_initial_data(Main)
    \/ \E th \in Callers :
          Quiet(th) /\ submit_problem_transaction(th) /\ SameSecond(th)

\* The threads are started and joined: as long as one of them has a step to
\* take, a step is taken.
SpecContention ==
    InitContention /\ [][NextContention]_vars /\ WF_vars(NextContention)

\* ------------------------------------------------------------ properties
Range(q) == {q[j] : j \in 1..Len(q)}

\* Thread th took the step.
Acted(th) ==
    \/ pc'[th] # pc[th]
    \/ idx'[th] # idx[th]
    \/ at'[th] # at[th]

\* Thread th's call returned on this step with the given result.
Returned(th, name, value) ==
    /\ Acted(th)
    /\ pc'[th] = "idle"
    /\ ret'[th] = <<name, value>>
    /\ at'[th] = at[th]

\* Thread th is inside commit, between its entry and its return.
InCommit(th) == pc[th] \in {"validate", "apply", "close", "append", "log"}

\* The keys a transaction context has read or written.
Touched(ctx) ==
    {ctx.read_set[j][1] : j \in 1..Len(ctx.read_set)}
        \cup {ctx.write_set[j][1] : j \in 1..Len(ctx.write_set)}

\* The versions of a chain that are open (end_ts is None).
Open(chain) == {j \in 1..Len(chain) : chain[j].end_ts = None}

\* The transaction that installed what a read of k by a transaction begun
\* at bts returns (0: the read returns None).
Source(k, bts) ==
    IF ReadRef(kind, records, bts, k) = <<>> THEN 0
    ELSE IF kind = "OCC" THEN owner[k]
    ELSE records[k][ReadRef(kind, records, bts, k)[1]].tid

\* C2: commit is atomic: while a transaction is between its validation and
\* its commit-log append, no other transaction that touches one of its keys
\* is inside commit.
C2_CommitAtomic ==
    \A t1 \in AllThreads, t2 \in AllThreads :
        (t1 # t2 /\ InCommit(t1) /\ InCommit(t2))
            => Touched(transactions[tid[t1]])
                   \cap Touched(transactions[tid[t2]]) = {}

\* C3: snapshot consistency: a transaction that reads the same key twice
\* gets the same value both times.
C3_SnapshotConsistency ==
    [][\A th \in Threads :
          LET before == at[th].done
              after == at'[th].done
          IN (/\ Len(before) >= 1
              /\ Len(after) = Len(before) + 1
              /\ after[Len(after)][1] = "read"
              /\ before[Len(before)] = after[Len(after)])
                 => ret'[th] = ret[th]]_vars

\* C5: a commit that returns False has changed neither the records nor the
\* commit log: False comes out of validation only, validation is entered
\* from the call only, and no step of it writes to the store.
C5_FailedCommitChangesNothing ==
    [][\A th \in AllThreads :
          /\ Returned(th, "commit", FALSE) => pc[th] = "validate"
          /\ (Acted(th) /\ pc'[th] = "validate")
                => pc[th] \in {"idle", "validate"}
          /\ (Acted(th) /\ (pc[th] = "validate" \/ pc'[th] = "validate"))
                => UNCHANGED <<records, commit_log, owner>>]_vars

\* C5 witness: a commit with two entries read and two buffered writes has
\* returned False.
C5_Witness ==
    \E th \in Threads :
        /\ pc[th] = "idle"
        /\ ret[th] = <<"commit", FALSE>>
        /\ Len(transactions[held[th]].read_set) = 2
        /\ Len(transactions[held[th]].write_set) = 2

\* C6: monotonic clock: the commit log grows by exactly one entry on the
\* step a commit returns True, and no other step changes it.
C6_MonotonicClock ==
    [][/\ IsPrefix(commit_log, commit_log')
       /\ Len(commit_log') =
             Len(commit_log)
               + (IF \E th \in AllThreads : Returned(th, "commit", TRUE)
                  THEN 1 ELSE 0)]_vars

\* C6 witness: one commit has returned True and another False.
C6_Witness ==
    \E t1 \in Threads, t2 \in Threads :
        /\ pc[t1] = "idle" /\ ret[t1] = <<"commit", TRUE>>
        /\ pc[t2] = "idle" /\ ret[t2] = <<"commit", FALSE>>
        /\ Len(commit_log) = Len(df) + 1

\* C7: chain invariant: when no commit call is in progress, no chain has
\* more than one open version.
C7_ChainInvariant ==
    (IsMV /\ \A th \in AllThreads : pc[th] = "idle")
        => \A k \in DOMAIN records : Cardinality(Open(records[k])) <= 1

\* C9: buffered writes are invisible: what a read returns to a transaction
\* was installed by that transaction itself or by one whose commit has
\* returned True.
C9_BufferedWritesInvisible ==
    [][\A th \in Threads, k \in Keys :
          (/\ at[th].line = "active"
           /\ at'[th].done = Append(at[th].done, <<"read", k>>)
           /\ Source(k, transactions[held[th]].begin_ts) # 0)
              => Source(k, transactions[held[th]].begin_ts)
                    \in Range(commit_log) \cup {held[th]}]_vars

\* ------------------------------------------------- first committer wins
\* Caller th's transaction read k once, found something, and then buffered
\* one write to k of another value than it read.
ValueReadBy(th, k) ==
    LET e == transactions[held[th]].read_set[1]
    IN IF kind = "OCC" THEN e[2] ELSE records[k][e[2]].value

ReadThenWrote(th, k) ==
    /\ Len(at[th].done) = 2
    /\ at[th].done[1] = <<"read", k>>
    /\ at[th].done[2][1] = "write"
    /\ at[th].done[2][2] = k
    /\ transactions[held[th]].read_set # <<>>
    /\ at[th].done[2][3] # ValueReadBy(th, k)

\* Both callers did so, and they observed the same version (MV) or the same
\* value (OCC).
Rivals(k) ==
    /\ ReadThenWrote(1, k)
    /\ ReadThenWrote(2, k)
    /\ transactions[held[1]].read_set[1][2]
           = transactions[held[2]].read_set[1][2]

\* A transaction other than the two rivals' has committed a write to k
\* after the commit log had length from.
ThirdWrote(k, from) ==
    \E p \in (from + 1)..Len(commit_log) :
        /\ commit_log[p] \notin {held[1], held[2]}
        /\ HasKey(transactions[commit_log[p]].write_set, k)

Min(a, b) == IF a < b THEN a ELSE b
Max(a, b) == IF a < b THEN b ELSE a

\* The commit of th returns x on this step: true if the rival has not
\* called commit yet, false if the rival's commit returned true, and after
\* false a rival's 150 is not the stored value of k.
FirstWins(th, k, x) ==
    LET o == 3 - th
    IN /\ at[o].line = "active" => x = TRUE
       /\ ret[o] = <<"commit", TRUE>> => x = FALSE
       /\ (x = FALSE /\ at[th].done[2][3] = ValueC
              /\ at[o].done[2][3] # ValueC)
            => \A v \in Range(IF kind = "OCC" THEN <<records'[k]>>
                              ELSE [j \in 1..Len(records'[k]) |->
                                       records'[k][j].value]) : v # ValueC

\* C4 as stated: first-committer-wins, with one call at a time: two
\* transactions that each read k once, observed the same version (value),
\* and each buffered a write of another value, with no third transaction
\* committing a write to k between their reads and their commits: the first
\* to call commit gets true, the other false.
C4_FirstCommitterWinsSinceRead ==
    [][\A th \in Threads, k \in Keys, x \in BOOLEAN :
          (/\ Returned(th, "commit", x)
           /\ Rivals(k)
           /\ ~ThirdWrote(k, Min(at[1].seen, at[2].seen)))
              => FirstWins(th, k, x)]_vars

\* C4 as amended: the same, with no third transaction committing a write to
\* k after the two transactions have begun.
C4_FirstCommitterWins ==
    [][\A th \in Threads, k \in Keys, x \in BOOLEAN :
          (/\ Returned(th, "commit", x)
           /\ Rivals(k)
           /\ ~ThirdWrote(k, Max(transactions[held[1]].begin_ts,
                                  transactions[held[2]].begin_ts)))
              => FirstWins(th, k, x)]_vars

\* The scenario: Score 100 read by both, one wrote 120 and got true, the
\* other intended 150 and got false, and the third caller has committed
\* nothing since they began.
C4_Witness ==
    /\ Rivals("user_1")
    /\ ValueReadBy(1, "user_1") = ValueA
    /\ at[2].done[2][3] = ValueB /\ ret[2] = <<"commit", TRUE>>
    /\ at[1].done[2][3] = ValueC /\ ret[1] = <<"commit", FALSE>>
    /\ ~ThirdWrote("user_1", Max(transactions[held[1]].begin_ts,
                                 transactions[held[2]].begin_ts))

\* C8: InvalidTransaction: a call with the id of a transaction whose commit
\* has returned fails and changes nothing; in particular a second commit of
\* a committed transaction applies nothing and leaves the commit log alone.
C8_InvalidTransaction ==
    [][\A th \in Threads :
          (at[th].late > 0 /\ Acted(th) /\ InCommit(th))
              => UNCHANGED <<records, commit_log>>]_vars

\* ---------------------------------------------------------------- workers
\* Every thread has made all its submissions.
AllReturned ==
    \A th \in Threads :
        at[th].call > Len(at[th].todo) /\ at[th].line = "while"

\* The sum of the increases of the submissions to k that returned True,
\* from the j-th submission of th on.
RECURSIVE Increase(_, _, _)
Increase(th, k, j) ==
    IF j > Len(at[th].results) THEN 0
    ELSE (IF at[th].todo[j][1] = k /\ at[th].results[j] = "True"
          THEN at[th].todo[j][2] ELSE 0) + Increase(th, k, j + 1)

\* The Score load_initial_data stored for k.
InitialScore(k) == df[CHOOSE j \in 1..Len(df) : df[j][1] = k][2][1]

\* The Score of the latest committed value of k.
LatestScore(k) ==
    IF kind = "OCC" THEN records[k][1]
    ELSE records[k][Len(records[k])].value[1]

\* No two transactions were given the same id.
UniqueIds == Range(at[1].ids) \cap Range(at[2].ids) = {}

\* C1: no lost updates: when all workers have finished and each returned
\* True, the latest committed Score of every key is its initial Score plus
\* the sum of the workers' increases to it (here also when every
\* transaction had an id of its own).
C1_NoLostUpdates ==
    \A k \in Keys :
        (/\ AllReturned
         /\ UniqueIds
         /\ HasKey(df, k)
         /\ \A th \in Threads : Range(at[th].results) = {"True"})
            => LatestScore(k)
                 = InitialScore(k) + Increase(1, k, 1) + Increase(2, k, 1)

\* C10: bounded retry: a submission makes at most 3 attempts; it returns
\* True at the attempt whose commit returned true, and the write loop of
\* that commit stores the value the attempt computed, once; it returns
\* False after the third commit that returned false.
C10_BoundedRetry ==
    [][\A th \in Threads :
          /\ at[th].retry_count < max_retries
          /\ pc[th] \in {"apply", "close", "append"}
                => items[th] = << <<Key(th), at[th].new_data>> >>
          /\ at'[th].results # at[th].results
                => LET r == at'[th].results[Len(at'[th].results)]
                   IN /\ r = "True" => ret[th] = <<"commit", TRUE>>
                      /\ r = "False" =>
                            /\ ret[th] = <<"commit", FALSE>>
                            /\ at[th].retry_count = max_retries - 1
                      /\ r = "None" => ret[th] = <<"read", NoValue>>]_vars

\* ------------------------------------------------------------ validation
\* Thread th's commit leaves validation for its write loop or its log
\* append on this step: validation passed.
ValidationPassed(th) ==
    /\ Acted(th)
    /\ pc[th] \in {"idle", "validate"}
    /\ pc'[th] \in {"apply", "close", "log"}

\* Some version th's transaction observed is no longer the head of its
\* key's chain, or has been closed.
ObservedStale(th) ==
    \E j \in 1..Len(at[th].obs) :
        /\ at[th].obs[j][2] # <<>>
        /\ LET k == at[th].obs[j][1]
               r == at[th].obs[j][2][1]
           IN \/ Len(records[k]) # r
              \/ records[k][r].end_ts # None

\* C11: snapshot-isolation validator: in the multi-version stores, with one
\* call at a time, the commit of a transaction returns false if and only if
\* some version it observed (at any of its reads) is not the head of its
\* key's chain any more or has been closed.
C11_SnapshotValidator ==
    [][\A th \in Threads :
          (IsMV /\ Late' = 0)
              => /\ Returned(th, "commit", FALSE) => ObservedStale(th)
                 /\ ValidationPassed(th) => ~ObservedStale(th)]_vars

\* The version of k that was the open one when the commit log had length
\* bts, as read would record it: the last version installed by a
\* transaction among the first bts of the log; <<>> if there is none.
OpenAtBegin(k, bts) ==
    LET S == {j \in 1..Len(Chain(records, k)) :
                 records[k][j].tid \in Range(SubSeq(commit_log, 1, bts))}
    IN IF S = {} THEN <<>>
       ELSE <<CHOOSE j \in S : \A m \in S : m <= j>>

\* C12: reads are as of the transaction's begin: in the multi-version
\* stores a read finds the version of k that was the open one when the
\* transaction began, or nothing if k had no version then; never a version
\* installed by a commit that completed after the begin.
C12_ReadsAsOfBegin ==
    [][\A th \in Threads, k \in Keys :
          (/\ IsMV
           /\ Late = 0
           /\ at[th].line = "active"
           /\ at'[th].done = Append(at[th].done, <<"read", k>>))
              => Observed(th, k)
                    = OpenAtBegin(k, transactions[held[th]].begin_ts)]_vars

\* C13: flat-policy validation: in the flat store, if another transaction's
\* commit that writes k has returned true since T's (last) read and T read
\* k and found a value, T's commit does not pass validation, whatever the
\* content the other commit wrote.
C13_FlatValidation ==
    [][\A th \in Threads :
          (kind = "OCC" /\ Late' = 0 /\ ValidationPassed(th))
              => ~\E j \in 1..Len(at[th].obs),
                     p \in (at[th].seen + 1)..Len(commit_log) :
                      /\ at[th].obs[j][2] # <<>>
                      /\ commit_log[p] # held[th]
                      /\ HasKey(transactions[commit_log[p]].write_set,
                                at[th].obs[j][1])]_vars

\* C14: observed absence is validated: in each store, if a read of T found
\* nothing for k and k has a committed value by the time T commits, T's
\* commit does not pass validation.
C14_AbsenceValidated ==
    [][\A th \in Threads :
          (Late' = 0 /\ ValidationPassed(th))
              => \A j \in 1..Len(at[th].obs) :
                    at[th].obs[j][2] = <<>>
                        => IF IsMV
                           THEN Chain(records, at[th].obs[j][1]) = <<>>
                           ELSE at[th].obs[j][1] \notin DOMAIN records]_vars

\* The value of th's last write call for k.
LastWritten(th, k) ==
    LET S == {j \in 1..Len(at[th].done) :
                 at[th].done[j][1] = "write" /\ at[th].done[j][2] = k}
    IN at[th].done[CHOOSE j \in S : \A m \in S : m <= j][3]

\* C15: last write wins inside a transaction: once a transaction that
\* wrote k (once or several times) has committed, k's chain holds exactly
\* one version of it, with the last value written (multi-version stores),
\* or k's stored value, if it is this transaction's, is the last value
\* written (flat store).
C15_LastWriteWins ==
    \A th \in Threads, k \in Keys :
        (/\ Late = 0
         /\ at[th].line = "finished"
         /\ pc[th] = "idle"
         /\ ret[th] = <<"commit", TRUE>>
         /\ \E j \in 1..Len(at[th].done) :
               at[th].done[j][1] = "write" /\ at[th].done[j][2] = k)
            => IF IsMV
               THEN \E j \in 1..Len(records[k]) :
                       /\ {m \in 1..Len(records[k]) :
                              records[k][m].tid = held[th]} = {j}
                       /\ records[k][j].value = LastWritten(th, k)
               ELSE owner[k] = held[th] => records[k] = LastWritten(th, k)

\* C16: unique transaction ids under concurrent begin: the ids
\* new_transaction has returned to different threads are different, so no
\* two callers hold the same context.
C16_UniqueTransactionIds ==
    \A t1 \in AllThreads, t2 \in AllThreads :
        (t1 # t2 /\ held[t1] # 0 /\ held[t2] # 0) => held[t1] # held[t2]

\* Thread th makes a read or a write call on this step.
ReadOrWrite(th) ==
    /\ Acted(th)
    /\ pc[th] = "idle"
    /\ pc'[th] = "idle"
    /\ ret'[th][1] \in {"read", "write"}

\* C17: read and write touch only the caller's transaction: such a call
\* leaves the records (their keys included), the commit log and every
\* other transaction's context as they were, so every key of the records
\* has a latest version for a scan to find.
C17_ReadWriteFrame ==
    [][\A th \in AllThreads :
          ReadOrWrite(th)
              => /\ records' = records
                 /\ commit_log' = commit_log
                 /\ \A t \in DOMAIN transactions :
                       t # held[th] => transactions'[t] = transactions[t]
                 /\ \A k \in DOMAIN records' :
                       IsMV => records'[k] # <<>>]_vars

\* ------------------------------------------------- commits one at a time
\* No other thread is inside commit.
Alone(th) == \A o \in AllThreads \ {th} : ~InCommit(o)

\* The store with commit run as one step: while a thread is inside commit
\* no other thread moves; everything else interleaves as in Next.
NextAtomicCommit ==
    \/ \E th \in AllThreads : Alone(th) /\ Internal(th)
    \/ Alone(Main) /\ load_initial_data(Main)
    \/ \E th \in Threads : Alone(th) /\ client(th, Plans)

SpecAtomicCommit == Init /\ [][NextAtomicCommit]_vars

\* run_concurrent_submissions with commit run as one step.  The threads are
\* started and joined: as long as one of them has a step to take, a step
\* is taken.
NextWAtomicCommit ==
    \/ \E th \in AllThreads : Alone(th) /\ Internal(th)
    \/ Alone(Main) /\ load_initial_data(Main)
    \/ \E th \in Threads : Alone(th) /\ submit_problem_transaction(th)

SpecWAtomicCommit ==
    InitW /\ [][NextWAtomicCommit]_vars /\ WF_vars(NextWAtomicCommit)

\* ---------------------------------------------------------------- chains
\* A chain is sorted by begin_ts, every version but the last is closed at
\* the next version's begin_ts, and no timestamp has two visible versions.
Contiguous(chain) ==
    /\ \A j \in 1..(Len(chain) - 1) :
          /\ chain[j].begin_ts <= chain[j + 1].begin_ts
          /\ chain[j].end_ts = chain[j + 1].begin_ts
    /\ \A bts \in 0..(Len(commit_log) + 1) :
          Cardinality({j \in 1..Len(chain) : Visible(chain[j], bts)}) <= 1

\* C18: version chains are ordered and contiguous: in the multi-version
\* stores with commits run one at a time, a step keeps every version of every
\* chain in its place, changes nothing of it but an end_ts that was None,
\* and leaves every chain sorted by begin_ts with each version but the last
\* closed at the next one's begin_ts, so that no timestamp sees two versions
\* of a key.
C18_ChainsOrdered ==
    [][IsMV =>
          /\ \A k \in DOMAIN records :
                /\ k \in DOMAIN records'
                /\ Len(records'[k]) >= Len(records[k])
                /\ \A j \in 1..Len(records[k]) :
                      /\ records'[k][j].value = records[k][j].value
                      /\ records'[k][j].begin_ts = records[k][j].begin_ts
                      /\ records'[k][j].tid = records[k][j].tid
                      /\ records[k][j].end_ts # None
                            => records'[k][j].end_ts = records[k][j].end_ts
          /\ \A k \in DOMAIN records' : Contiguous(records'[k])]_vars

\* C18 witness: a chain of three versions installed by three commits, two
\* of them closed.
C18_Witness ==
    /\ IsMV
    /\ \A th \in AllThreads : pc[th] = "idle"
    /\ \E k \in DOMAIN records :
          /\ Len(records[k]) = 3
          /\ records[k][1].begin_ts < records[k][2].begin_ts
          /\ records[k][2].begin_ts < records[k][3].begin_ts
          /\ records[k][2].end_ts # None

\* C19: version timestamps index the commit log: in the multi-version
\* stores with commits run one at a time, once the commit that installed it has
\* returned, a version's begin_ts is the position (counted from 0) in the
\* commit log of the transaction that installed it.
C19_TimestampsIndexLog ==
    (IsMV /\ \A th \in AllThreads : ~InCommit(th))
        => \A k \in DOMAIN records :
              \A j \in 1..Len(records[k]) :
                 /\ records[k][j].begin_ts < Len(commit_log)
                 /\ commit_log[records[k][j].begin_ts + 1] = records[k][j].tid

\* C19 witness: a version installed by the last commit of a log of three
\* or more entries, one of them a commit that wrote nothing.
C19_Witness ==
    /\ IsMV
    /\ \A th \in AllThreads : pc[th] = "idle"
    /\ Len(commit_log) >= 3
    /\ \E p \in 1..(Len(commit_log) - 1) :
          transactions[commit_log[p]].write_set = <<>>
    /\ \E k \in DOMAIN records :
          /\ records[k] # <<>>
          /\ records[k][Len(records[k])].begin_ts = Len(commit_log) - 1

\* ------------------------------------------------------------- progress
\* The workers that submit to key k.
Workers(k) ==
    {th \in Callers : at[th].todo # <<>> /\ at[th].todo[1][1] = k}

\* A transaction that writes th's key has been appended to the commit log
\* (its commit returned true) after the log had length from.  While th's
\* attempt is under way this is another worker's commit: th's own earlier
\* attempts were not logged.
CausedSince(th, from) ==
    \E p \in (from + 1)..Len(commit_log) :
        HasKey(transactions[commit_log[p]].write_set, Key(th))

\* A worker's commit has returned false at most N-1 times, N the workers
\* on its key, and no submission has given up.
FewFailures(th) ==
    /\ at[th].todo # <<>>
          => at[th].retry_count
                <= Cardinality(Workers(at[th].todo[1][1])) - 1
    /\ "False" \notin Range(at[th].results)

\* Worker th's commit has just returned false.
JustFailed(th) ==
    /\ at[th].line = "if"
    /\ pc[th] = "idle"
    /\ ret[th] = <<"commit", FALSE>>

\* Every worker whose user is in the loaded data has returned True.
AllCommitted ==
    \A th \in Callers :
        (at[th].todo # <<>> /\ HasKey(df, at[th].todo[1][1]))
            => at[th].results = <<"True">>

\* C20: progress under contention, with commits run one at a time: each
\* false commit of a worker comes after another worker's commit that wrote
\* the key and returned true after the failing worker's read; a worker's
\* commit fails at most N-1 times, N the workers on its key; no worker
\* exhausts its three attempts; every worker eventually commits.
C20_ProgressSinceRead ==
    /\ [](\A th \in Callers :
             /\ JustFailed(th) => CausedSince(th, at[th].seen)
             /\ FewFailures(th))
    /\ <>AllCommitted

\* The same with the other worker's commit having returned true after the
\* failing worker's attempt began (rather than after its read): what three
\* workers keep to when every call of the store runs alone (SpecContention).
ProgressSinceBegin ==
    /\ [](\A th \in Callers :
             /\ JustFailed(th)
                   => CausedSince(th, transactions[held[th]].begin_ts)
             /\ FewFailures(th))
    /\ <>AllCommitted

=============================================================================
